---- MODULE Spec2Model ----
(***************************************************************************)
(* A model of decalib/deca.py (class DECA): the parameter codec            *)
(* (decompose_code, encode), the decode pipeline (decode, decode_coarse,   *)
(* displacement2normal, visofp) and the visualization composer             *)
(* (visualize).                                                            *)
(*                                                                         *)
(* Tensors are modelled by small integer structures.  A 2-D tensor is a    *)
(* record [batch, width, data] with data[b][i] the element of row b and    *)
(* column i (1-based).  A slice of a tensor is a VIEW: it shares the       *)
(* storage of the tensor it was cut from, so a write through the view is   *)
(* seen by every other view of the same columns.                           *)
(***************************************************************************)
EXTENDS Integers, Sequences, FiniteSets, TLC

VARIABLES
    call,        \* the arguments of the last codec call (encoder output included)
    parameters,  \* the storage of the flat parameter tensor, after the call
    codedict,    \* the CodeDict the call returned (key -> view or owned tensor)
    raised,      \* TRUE iff the last codec call raised instead of returning
    assets,      \* the static assets loaded at construction (masks, use_tex)
    dcode,       \* the CodeDict handed to decode / decode_coarse by the caller
    res,         \* what the last decode call computed and returned
    prev,        \* what the decode call before it computed and returned
    pc           \* "start" before the call under study, "done" after it

codec_vars == <<call, parameters, codedict, raised>>
decode_vars == <<assets, dcode, res, prev>>
vars == <<call, parameters, codedict, raised, assets, dcode, res, prev, pc>>

----------------------------------------------------------------------------
(* Bounds of the model *)

MaxBatch == 2
MaxBlock == 2
MaxSlack == 1
MaxAngle == 1
MaxSeed == 1
NumVerts == 3
NumTexels == 2
Unit == 2
ImgHalf == 2
NumCoarseTexels == 3
MaxZ == 1
MaxSide == 2
MaxDim == 3

(* Program constants *)

LightRows == 9
LightCols == 3
JawOffset == 3
JawDim == 3
VisThresholdTenths == 1
GridRow == 8
GridPadding == 2

None == [kind |-> "none"]

Some(x) == [kind |-> "some", val |-> x]

----------------------------------------------------------------------------
(* Tensors and views *)

Tensor(B, W, data) == [batch |-> B, width |-> W, data |-> data]

Min(a, b) == IF a < b THEN a ELSE b

\* code[:, start:end] : Python slicing clamps both ends to the width
Slice(code, start, end) ==
    [kind |-> "view", lo |-> Min(start, code.width),
     hi |-> IF Min(end, code.width) < Min(start, code.width)
            THEN Min(start, code.width) ELSE Min(end, code.width),
     batch |-> code.batch, light |-> FALSE]

ViewWidth(v) == v.hi - v.lo

\* The value read through a (2-D) view: one row of columns per sample
Read(store, v) ==
    [b \in 1..v.batch |-> [i \in 1..ViewWidth(v) |-> store.data[b][v.lo + i]]]

\* The value read through the reshaped light view: (batch, 9, 3), row-major
ReadLight(store, v) ==
    [b \in 1..v.batch |->
        [r \in 1..LightRows |->
            [c \in 1..LightCols |-> store.data[b][v.lo + (r - 1) * LightCols + c]]]]

\* x.reshape(x.shape[0], 9, 3) is legal iff the element counts agree
ReshapeOk(v) == v.batch * ViewWidth(v) = v.batch * LightRows * LightCols

Reshape(v) == [v EXCEPT !.light = TRUE]

----------------------------------------------------------------------------
(* decompose_code *)

ParamKeys == {"shape", "tex", "exp", "pose", "cam", "light"}

\* a slice end one column short of the block
SliceEndShort(start, n) == start + n - 1

\* end = start + int(num_dict[key])
SliceEnd(start, n) == start + n

RECURSIVE DecomposeLoop(_, _, _, _, _, _)
DecomposeLoop(code, keys, num_dict, i, start, code_dict) ==
    IF i > Len(keys)
    THEN [raised |-> FALSE, code_dict |-> code_dict]
    ELSE LET key == keys[i]
             end == SliceEnd(start, num_dict[key])
             blk == Slice(code, start, end)
         IN  IF key = "light"
             THEN IF ReshapeOk(blk)
                  THEN DecomposeLoop(code, keys, num_dict, i + 1, end,
                                     code_dict @@ (key :> Reshape(blk)))
                  ELSE [raised |-> TRUE, code_dict |-> <<>>]
             ELSE DecomposeLoop(code, keys, num_dict, i + 1, end,
                                code_dict @@ (key :> blk))

decompose_code(code, keys, num_dict) ==
    DecomposeLoop(code, keys, num_dict, 1, 0, <<>>)

\* The value a CodeDict entry holds, read through the current storage
Value(store, e) ==
    IF e.kind = "own" THEN e.val
    ELSE IF e.light THEN ReadLight(store, e) ELSE Read(store, e)

----------------------------------------------------------------------------
(* encode *)

\* Largest element the encoder model emits; MaxLabel + 1 is the base of the
\* coding of converted jaw poses below
MaxLabel ==
    (MaxBatch + 1) * (3 * (MaxBlock + 1) + JawOffset + JawDim
                      + LightRows * LightCols + MaxSlack + 1) + MaxAngle + 1

NonZero(v) == Cardinality({k \in 1..JawDim : v[k] # 0})

\* batch_euler2axis on one Euler triple.  A rotation about a single axis has
\* the same axis-angle vector as Euler triple; any other triple yields a vector
\* that is a function of the triple and differs from it (coded as negative
\* numbers, one code per triple and component).
Euler2Axis(v) ==
    IF NonZero(v) <= 1 THEN v
    ELSE [k \in 1..JawDim |->
            0 - (JawDim * (v[1] + (MaxLabel + 1) * v[2]
                           + (MaxLabel + 1) * (MaxLabel + 1) * v[3]) + k)]

batch_euler2axis(t) == [b \in DOMAIN t |-> Euler2Axis(t[b])]

\* posecode[:, 3:] : a view of the trailing columns of a view
SubView(v, from) == [v EXCEPT !.lo = Min(v.lo + from, v.hi)]

\* posecode[:, 3:] = x : an in-place write through the view into the storage
WriteView(store, v, x) ==
    [store EXCEPT !.data =
        [b \in 1..store.batch |->
            [i \in 1..store.width |->
                IF i > v.lo /\ i <= v.hi THEN x[b][i - v.lo]
                ELSE store.data[b][i]]]]

\* posecode[:, 3:] without .clone(): the retained value would alias the storage
EulerJawAlias(store, posecode) == SubView(posecode, JawOffset)

\* euler_jaw_pose = posecode[:, 3:].clone()
EulerJawClone(store, posecode) ==
    [kind |-> "own", val |-> Read(store, SubView(posecode, JawOffset))]

\* The whole of encode: [raised, parameters (storage afterwards), codedict]
encode(c) ==
    LET d == decompose_code(c.code, c.keys, c.num_dict)
        cd0 == d.code_dict @@ ("images" :> [kind |-> "own", val |-> "images"])
        cd1 == IF c.use_detail
               THEN cd0 @@ ("detail" :> [kind |-> "own", val |-> "detailcode"])
               ELSE cd0
    IN  IF d.raised
        THEN [raised |-> TRUE, parameters |-> c.code, codedict |-> <<>>]
        ELSE IF c.jaw_type = "euler"
        THEN LET posecode == cd1["pose"]
                 euler_jaw_pose == EulerJawClone(c.code, posecode)
                 store == WriteView(c.code, SubView(posecode, JawOffset),
                              batch_euler2axis(Value(c.code, euler_jaw_pose)))
             IN  [raised |-> FALSE, parameters |-> store,
                  codedict |-> [cd1 EXCEPT !["pose"] = posecode]
                               @@ ("euler_jaw_pose" :> euler_jaw_pose)]
        ELSE [raised |-> FALSE, parameters |-> c.code, codedict |-> cd1]

----------------------------------------------------------------------------
(* Image-like tensors of the decode pipeline                               *)
(*                                                                         *)
(* A (batch, channel, texel) tensor is [batch, chan, den, data]: data      *)
(* holds integer numerators and den is their common denominator, so a      *)
(* colour or mask value v stands for the rational v / den, 1.0 is den/den, *)
(* and products are exact.                                                 *)

Texels == 1..NumTexels

Img(B, C, den, data) ==
    [kind |-> "img", batch |-> B, chan |-> C, den |-> den, data |-> data]

Max(a, b) == IF a > b THEN a ELSE b

Abs(a) == IF a < 0 THEN 0 - a ELSE a

\* Broadcasting of size-1 batch / channel dimensions
At(x, b, ch, t) ==
    x.data[IF x.batch = 1 THEN 1 ELSE b][IF x.chan = 1 THEN 1 ELSE ch][t]

Broadcastable(x, y) ==
    /\ (x.batch = y.batch \/ x.batch = 1 \/ y.batch = 1)
    /\ (x.chan = y.chan \/ x.chan = 1 \/ y.chan = 1)

\* x * y, elementwise
Mul(x, y) ==
    Img(Max(x.batch, y.batch), Max(x.chan, y.chan), x.den * y.den,
        [b \in 1..Max(x.batch, y.batch) |->
            [ch \in 1..Max(x.chan, y.chan) |->
                [t \in Texels |-> At(x, b, ch, t) * At(y, b, ch, t)]]])

\* x + y, elementwise, of two tensors with the same denominator
Add(x, y) ==
    Img(Max(x.batch, y.batch), Max(x.chan, y.chan), x.den,
        [b \in 1..Max(x.batch, y.batch) |->
            [ch \in 1..Max(x.chan, y.chan) |->
                [t \in Texels |-> At(x, b, ch, t) + At(y, b, ch, t)]]])

\* 1 - x
OneMinus(x) ==
    [x EXCEPT !.data = [b \in 1..x.batch |-> [ch \in 1..x.chan |->
                           [t \in Texels |-> x.den - x.data[b][ch][t]]]]]

\* x[:, :3, :, :]
First3(x) ==
    Img(x.batch, Min(x.chan, 3), x.den,
        [b \in 1..x.batch |-> [ch \in 1..Min(x.chan, 3) |-> x.data[b][ch]]])

\* x[:, [0], ...]
Channel0(x) ==
    Img(x.batch, 1, x.den, [b \in 1..x.batch |-> [ch \in 1..1 |-> x.data[b][1]]])

----------------------------------------------------------------------------
(* External collaborators of decode, with the contracts the pipeline uses *)

Faces == <<<<1, 2, 3>>>>
Lmk2dIdx == <<1, 2>>
Lmk3dIdx == <<2, 3>>

\* self.flame(shape, exp, pose): vertices and the landmarks embedded in them
FlameVert(g, b, n) ==
    <<((g + n) % 3) - 1, ((g + b + 2 * n) % 3) - 1, (n % 2) + 1>>

flame(d) ==
    LET verts == [b \in 1..d.batch |-> [n \in 1..NumVerts |-> FlameVert(d.shape, b, n)]]
    IN  [verts |-> verts,
         landmarks2d |-> [b \in 1..d.batch |-> [l \in 1..Len(Lmk2dIdx) |-> verts[b][Lmk2dIdx[l]]]],
         landmarks3d |-> [b \in 1..d.batch |-> [l \in 1..Len(Lmk3dIdx) |-> verts[b][Lmk3dIdx[l]]]]]

\* util.batch_orth_proj(X, camera): scale * (xy + translation), scale * z;
\* a batch of one point set is projected under every camera of the batch
batch_orth_proj(X, cam) ==
    [b \in 1..Max(Len(X), Len(cam)) |->
        LET Xb == X[IF Len(X) = 1 THEN 1 ELSE b]
            c == cam[b]
        IN  [n \in 1..Len(Xb) |->
                <<c[1] * (Xb[n][1] + c[2]), c[1] * (Xb[n][2] + c[3]), c[1] * Xb[n][3]>>]]

\* util.face_vertices(vertices, faces)
face_vertices(vertices, faces) ==
    [b \in 1..Len(vertices) |->
        [f \in 1..Len(faces) |-> [k \in 1..3 |-> vertices[b][faces[f][k]]]]]

\* self.render.world2uv / world2uv_dense: the per-texel interpolation of the
\* face attributes; texel t lies at a corner of the first face
world2uv(attributes) ==
    [b \in 1..Len(attributes) |-> [t \in Texels |-> attributes[b][1][((t - 1) % 3) + 1]]]

\* One bilinear sample with zero padding of the value v at position p of an
\* image that covers |x|, |y| <= ImgHalf: full inside, attenuated on the border
Sample(v, p) ==
    LET m == Max(Abs(p[1]), Abs(p[2]))
    IN  IF m < ImgHalf THEN v
        ELSE IF m = ImgHalf THEN (v * (Unit - 1)) \div Unit
        ELSE 0

\* The caller's high-resolution image: hr.chan channels, pixel values in 0..Unit
Pixel(hr, b, ch, p) == (hr.seed + b + ch + p[1] + 2 * p[2]) % (Unit + 1)

\* F.grid_sample(hr_images, uv_pverts.permute(0,2,3,1)[:,:,:,:2], ...)
grid_sample_image(hr, uv_pverts) ==
    Img(Len(uv_pverts), hr.chan, Unit,
        [b \in 1..Len(uv_pverts) |-> [ch \in 1..hr.chan |->
            [t \in Texels |-> Sample(Pixel(hr, b, ch, uv_pverts[b][t]), uv_pverts[b][t])]]])

\* F.grid_sample(torch.ones_like(hr_images), ...)
grid_sample_ones(hr, uv_pverts) ==
    Img(Len(uv_pverts), hr.chan, Unit,
        [b \in 1..Len(uv_pverts) |-> [ch \in 1..hr.chan |->
            [t \in Texels |-> Sample(Unit, uv_pverts[b][t])]]])

\* self.flametex(tex) if use_tex, else zeros([batch, 3, uv_size, uv_size])
Albedo(use_tex, d) ==
    Img(d.batch, 3, Unit,
        [b \in 1..d.batch |-> [ch \in 1..3 |-> [t \in Texels |->
            IF use_tex THEN (d.shape + b + ch + t) % (Unit + 1) ELSE 0]]])

\* self.render.add_SHlight(uv_detail_normals, light): a non-negative intensity
Shading(d) ==
    Img(d.batch, 3, 1,
        [b \in 1..d.batch |-> [ch \in 1..3 |-> [t \in Texels |-> (d.shape + b + t) % 3]]])

\* util.vertex_normals(verts, faces)
VertexNormals(d) ==
    [b \in 1..d.batch |-> [n \in 1..NumVerts |-> <<0, (d.shape + n) % 2, 1>>]]

\* ops['transformed_normals']: depth components in tenths, from -0.1 to 0.2
TransformedNormals(d) ==
    [b \in 1..d.batch |-> [n \in 1..NumVerts |-> <<0, 0, ((d.shape + b + n) % 4) - 1>>]]

\* self.flame.seletec_3d68(normals)
seletec_3d68(normals) ==
    [b \in 1..Len(normals) |-> [l \in 1..Len(Lmk3dIdx) |-> normals[b][Lmk3dIdx[l]]]]

\* uv_z + fixed_uv_dis: one displacement per sample
DisplacementMap(d) == [b \in 1..d.batch |-> (d.shape + b) % 2]

\* self.D_detail(cat([pose[:,3:], exp, detail])): the displacement raster at
\* the coarse UV resolution, one scalar per texel; the zero field for some
\* detail codes, a field of both signs for the others
D_detail(d) ==
    [b \in 1..d.batch |-> [t \in 1..NumCoarseTexels |->
        IF d.detail = 0 \/ (d.detail + b) % 2 = 0 THEN 0
        ELSE ((d.detail + b + t) % 3) - 1]]

\* tensor_cropper.transform_points: the crop-to-original-image map
transform_points(X) ==
    [b \in 1..Len(X) |-> [n \in 1..Len(X[b]) |->
        [k \in 1..Len(X[b][n]) |-> IF k <= 2 THEN X[b][n][k] + 1 ELSE X[b][n][k]]]]

\* util.upsample_mesh on ONE sample: the coarse vertices displaced along their
\* normals plus one new vertex per template entry (here: one, on edge 1-2)
upsample_mesh(vertices, normals, displacement) ==
    [vertices |->
        [n \in 1..(NumVerts + 1) |->
            IF n <= NumVerts
            THEN <<vertices[n][1], vertices[n][2],
                   vertices[n][3] + displacement * normals[n][3]>>
            ELSE <<vertices[1][1] + vertices[2][1], vertices[1][2] + vertices[2][2],
                   vertices[1][3] + vertices[2][3] + displacement>>],
     faces |-> <<<<1, 2, NumVerts + 1>>, <<2, 3, NumVerts + 1>>>>]

----------------------------------------------------------------------------
(* displacement2normal                                                     *)
(*                                                                         *)
(* A raster of 3-vectors is data[b][t] = <<x, y, z>> in integer numerators *)
(* over a denominator that the operator states: the masks have denominator *)
(* Unit, so the masked displacement and the detailed positions have        *)
(* denominator Unit, the recomputed normals Unit * Unit and the blended     *)
(* normals Unit * Unit * Unit.                                             *)

CoarseTexels == 1..NumCoarseTexels

VScale(k, v) == <<k * v[1], k * v[2], k * v[3]>>

VAdd(u, v) == <<u[1] + v[1], u[2] + v[2], u[3] + v[3]>>

VSub(u, v) == <<u[1] - v[1], u[2] - v[2], u[3] - v[3]>>

Cross(u, v) ==
    <<u[2] * v[3] - u[3] * v[2], u[3] * v[1] - u[1] * v[3], u[1] * v[2] - u[2] * v[1]>>

\* self.render.world2uv(x, coarse=True): the per-texel interpolation of the
\* face attributes at the coarse UV resolution
world2uv_coarse(attributes) ==
    [b \in 1..Len(attributes) |->
        [t \in CoarseTexels |-> attributes[b][1][((t - 1) % 3) + 1]]]

\* util.vertex_normals(dense_vertices, self.render.dense_faces): the normal
\* of the dense face at each texel, spanned by the next two texels of the
\* raster (not normalised)
vertex_normals_dense(P) ==
    [b \in 1..Len(P) |->
        [t \in 1..Len(P[b]) |->
            LET n1 == (t % Len(P[b])) + 1
                n2 == (n1 % Len(P[b])) + 1
            IN  Cross(VSub(P[b][n1], P[b][t]), VSub(P[b][n2], P[b][t]))]]

\* F.interpolate(x, size) in its default mode 'nearest': output element t
\* copies input element floor((t-1) * n_in / n_out) + 1
NearestIndex(t, n_in, n_out) == (((t - 1) * n_in) \div n_out) + 1

interpolate(x, n_out) ==
    [t \in 1..n_out |-> x[NearestIndex(t, Len(x), n_out)]]

\* The displacement left as the generator produced it
UnmaskedDisplacement(uv_z, mask) ==
    [b \in 1..Len(uv_z) |-> [t \in CoarseTexels |-> uv_z[b][t] * Unit]]

\* uv_z = uv_z*self.uv_face_eye_mask_coarse   (numerators over Unit)
MaskedDisplacement(uv_z, mask) ==
    [b \in 1..Len(uv_z) |-> [t \in CoarseTexels |-> uv_z[b][t] * mask[t]]]

\* uv_coarse_vertices + uv_z*uv_coarse_normals + fixed_uv_dis*uv_coarse_normals
\* (numerators over Unit)
DetailVertices(uv_coarse_vertices, uv_z, uv_coarse_normals, fixed_uv_dis) ==
    [b \in 1..Len(uv_z) |-> [t \in CoarseTexels |->
        VAdd(VAdd(VScale(Unit, uv_coarse_vertices[b][t]),
                  VScale(uv_z[b][t], uv_coarse_normals[b][t])),
             VScale(Unit * fixed_uv_dis[t], uv_coarse_normals[b][t]))]]

\* uv_detail_normals*mask + uv_coarse_normals*(1-mask)
\* (detail normals over Unit * Unit, result over Unit * Unit * Unit)
BlendNormals(uv_detail_normals, uv_coarse_normals, mask) ==
    [b \in 1..Len(uv_detail_normals) |-> [t \in CoarseTexels |->
        VAdd(VScale(mask[t], uv_detail_normals[b][t]),
             VScale((Unit - mask[t]) * Unit * Unit, uv_coarse_normals[b][t]))]]

\* The whole of displacement2normal(uv_z, coarse_verts, coarse_normals)
displacement2normal(as, uv_z, coarse_verts, coarse_normals) ==
    LET batch_size == Len(uv_z)
        uv_coarse_vertices == world2uv_coarse(face_vertices(coarse_verts, Faces))
        uv_coarse_normals == world2uv_coarse(face_vertices(coarse_normals, Faces))
        uv_z_masked == MaskedDisplacement(uv_z, as.uv_face_eye_mask_coarse)
        uv_detail_vertices == DetailVertices(uv_coarse_vertices, uv_z_masked,
                                             uv_coarse_normals, as.fixed_uv_dis)
        dense_normals == vertex_normals_dense(uv_detail_vertices)
        blended == BlendNormals(dense_normals, uv_coarse_normals,
                                as.uv_face_eye_mask_coarse)
    IN  [kind |-> "normals", batch |-> batch_size,
         uv_coarse_vertices |-> uv_coarse_vertices,
         uv_coarse_normals |-> uv_coarse_normals,
         uv_z |-> uv_z_masked,
         uv_detail_vertices |-> uv_detail_vertices,
         dense_normals |-> dense_normals,
         den |-> Unit * Unit * Unit,
         data |-> [b \in 1..batch_size |-> interpolate(blended[b], NumTexels)]]

----------------------------------------------------------------------------
(* decode and decode_coarse *)

\* X[:,:,2:] = -X[:,:,2:] : a flip that leaves the vertical axis alone
FlipFrom2(X) ==
    [b \in 1..Len(X) |-> [n \in 1..Len(X[b]) |->
        [k \in 1..Len(X[b][n]) |-> IF k >= 3 THEN 0 - X[b][n][k] ELSE X[b][n][k]]]]

\* X[:,:,1:] = -X[:,:,1:] : every component after the first is negated
FlipFrom1(X) ==
    [b \in 1..Len(X) |-> [n \in 1..Len(X[b]) |->
        [k \in 1..Len(X[b][n]) |-> IF k >= 2 THEN 0 - X[b][n][k] ELSE X[b][n][k]]]]

\* X[:,:,:2]
Take2(X) ==
    [b \in 1..Len(X) |-> [n \in 1..Len(X[b]) |-> [k \in 1..2 |-> X[b][n][k]]]]

\* vis68 = (normals68[:,:,2:] <= 0.1).float() : the non-strict comparison
visofpNonStrict(normals) ==
    [b \in 1..Len(normals) |-> [l \in 1..Len(Lmk3dIdx) |->
        <<IF seletec_3d68(normals)[b][l][3] <= VisThresholdTenths THEN 1 ELSE 0>>]]

\* visofp: vis68 = (normals68[:,:,2:] < 0.1).float(), depths in tenths
visofp(normals) ==
    [b \in 1..Len(normals) |-> [l \in 1..Len(Lmk3dIdx) |->
        <<IF seletec_3d68(normals)[b][l][3] < VisThresholdTenths THEN 1 ELSE 0>>]]

\* torch.cat([landmarks3d, landmarks3d_vis], dim=2)
CatLast(X, Y) ==
    [b \in 1..Len(X) |-> [n \in 1..Len(X[b]) |-> X[b][n] \o Y[b][n]]]

\* A cache lookup that never finds the entry
CacheIgnored(d, key) == None

\* codedict[key] if key in codedict, else nothing
CacheLookup(d, key) == d[key]

\* The attributes stored from the untransformed vertices
StoreWorldAttributes(verts, trans_verts, faces) == face_vertices(verts, faces)

\* face_vertices = util.face_vertices(trans_verts, faces); opdict[key] = it
StoreAttributes(verts, trans_verts, faces) == face_vertices(trans_verts, faces)

\* The blend with the mask in place of its complement
CompositeSameMask(uv_gt, uv_face_eye_mask, uv_texture) ==
    Add(Mul(First3(uv_gt), uv_face_eye_mask),
        Mul(First3(uv_texture), uv_face_eye_mask))

\* uv_gt[:,:3,:,:]*uv_face_eye_mask + (uv_texture[:,:3,:,:]*(1-uv_face_eye_mask))
Composite(uv_gt, uv_face_eye_mask, uv_texture) ==
    Add(Mul(First3(uv_gt), uv_face_eye_mask),
        Mul(First3(uv_texture), OneMinus(uv_face_eye_mask)))

\* The sampled colour restricted by the mask
SampledMasked(uv_gt, uv_face_eye_mask) == Mul(First3(uv_gt), uv_face_eye_mask)

\* uv_texture_gt = uv_gt[:,:3,:,:]   (use_tex false)
SampledOnly(uv_gt, uv_face_eye_mask) == First3(uv_gt)

\* The static mask and the validity buffer added instead of multiplied
CompositeMaskSum(static_mask, uv_gt_mask) == Add(static_mask, uv_gt_mask)

\* uv_face_eye_mask = self.uv_face_eye_mask * uv_gt_mask
CompositeMask(static_mask, uv_gt_mask) == Mul(static_mask, uv_gt_mask)

\* Lines 298-319 / 210-230 / 405-423: the UV correspondence (cached or fresh),
\* the two samplings and the composite.  one_chan: decode_coarse keeps only
\* channel 0 of the validity buffer.
TextureStage(as, d, key, verts, trans_verts, faces, uv_texture, one_chan) ==
    LET cached == CacheLookup(d, key)
        fresh == cached.kind = "none"
        stored == IF fresh THEN Some(StoreAttributes(verts, trans_verts, faces))
                  ELSE None
        \* world2uv(trans_verts) computes the face attributes of trans_verts
        uv_pverts == IF fresh THEN world2uv(face_vertices(trans_verts, faces))
                     ELSE world2uv(cached.val)
        uv_gt == grid_sample_image(d.hr, uv_pverts)
        ones == grid_sample_ones(d.hr, uv_pverts)
        uv_gt_mask == IF one_chan THEN Channel0(ones) ELSE ones
        uv_face_eye_mask == CompositeMask(as.uv_face_eye_mask, uv_gt_mask)
        ok == as.use_tex =>
                 /\ Broadcastable(First3(uv_gt), uv_face_eye_mask)
                 /\ Broadcastable(First3(uv_texture), uv_face_eye_mask)
    IN  [kind |-> "texture", fresh |-> fresh,
         attributes_arg |-> cached,
         stored |-> stored,
         uv_pverts |-> uv_pverts,
         uv_gt |-> uv_gt,
         uv_gt_mask |-> uv_gt_mask,
         uv_face_eye_mask |-> uv_face_eye_mask,
         uv_texture |-> uv_texture,
         raised |-> ~ok,
         uv_texture_gt |->
            IF ~ok THEN None
            ELSE IF as.use_tex THEN Composite(uv_gt, uv_face_eye_mask, uv_texture)
            ELSE SampledOnly(uv_gt, uv_face_eye_mask)]

\* Lines 360-380 and 405-423 of decode: the dense mesh built from sample [0],
\* its projection, and the dense texture.  as.lib_raises: the tensor library
\* refuses to combine the batch-1 dense mesh with a larger camera batch.
DenseStage(as, d, verts, normals, displacement_map, uv_texture) ==
    LET up == upsample_mesh(verts[1], normals[1], displacement_map[1])
        dense_vertices == <<up.vertices>>
        dense_faces == up.faces
        mismatch == d.batch # Len(dense_vertices) /\ as.lib_raises
        dense_trans_verts == FlipFrom1(batch_orth_proj(dense_vertices, d.cam))
    IN  [kind |-> "dense", source_sample |-> 1,
         dense_vertices |-> dense_vertices,
         dense_faces |-> dense_faces,
         raised |-> mismatch,
         dense_trans_verts |-> IF mismatch THEN None ELSE dense_trans_verts,
         tex |-> IF mismatch THEN None
                 ELSE TextureStage(as, d, "dense_attributes", dense_vertices,
                                   dense_trans_verts, dense_faces, uv_texture, FALSE)]

Keys(names) == [k \in names |-> k]

\* The local names and opdict entries that the rendering stage assigns
\* (lines 284-319 of decode, 196-230 of decode_coarse)
RenderingBinds ==
    {"uv_z", "normals", "uv_detail_normals", "uv_shading", "uv_texture",
     "uv_pverts", "uv_gt", "uv_gt_mask", "uv_face_eye_mask", "uv_texture_gt",
     "opdict['uv_texture']", "opdict['normals']", "opdict['uv_detail_normals']",
     "opdict['displacement_map']", "opdict['uv_texture_gt']"}

\* The same names assigned whatever the flag
BoundAlways(rendering) == RenderingBinds

\* if rendering: ...   (the names are assigned nowhere else)
Bound(rendering) == IF rendering THEN RenderingBinds ELSE {}

\* What the return_vis stage of decode reads of them, in program order:
\* self.render(verts, trans_verts, uv_texture_gt, ..., face_mask=uv_face_eye_mask)
\* at line 341, F.grid_sample(uv_detail_normals, grid) at 357, and the dense
\* stage's opdict reads at 363-367
DecodeVisReads ==
    <<"uv_texture_gt", "uv_face_eye_mask", "uv_detail_normals",
      "opdict['uv_texture_gt']", "opdict['normals']", "opdict['displacement_map']">>

\* What the return_vis stage of decode_coarse reads of them (line 245)
CoarseVisReads == <<"uv_texture_gt", "uv_face_eye_mask">>

\* The first read of a name that is not bound, if any
RECURSIVE FirstUnbound(_, _, _)
FirstUnbound(reads, bound, i) ==
    IF i > Len(reads) THEN "none"
    ELSE IF reads[i] \notin bound THEN reads[i]
    ELSE FirstUnbound(reads, bound, i + 1)

\* The whole of decode(codedict, rendering, vis_lmk, return_vis, render_orig, ...)
decode(as, d, a) ==
    LET fl == flame(d)
        albedo == Albedo(as.use_tex, d)
        landmarks2d == FlipFrom1(Take2(batch_orth_proj(fl.landmarks2d, d.cam)))
        landmarks3d == FlipFrom1(batch_orth_proj(fl.landmarks3d, d.cam))
        trans_verts == FlipFrom1(batch_orth_proj(fl.verts, d.cam))
        proj == [landmarks2d |-> landmarks2d, landmarks3d |-> landmarks3d,
                 trans_verts |-> trans_verts]
        opdict0 == [verts |-> fl.verts, trans_verts |-> trans_verts,
                    landmarks2d |-> landmarks2d, landmarks3d |-> landmarks3d,
                    landmarks3d_world |-> fl.landmarks3d]
        normals == VertexNormals(d)
        uv_detail_normals == displacement2normal(as, D_detail(d), fl.verts, normals)
        uv_texture == Mul(albedo, Shading(d))
        coarse == IF a.rendering
                  THEN TextureStage(as, d, "attributes", fl.verts, trans_verts,
                                    Faces, uv_texture, FALSE)
                  ELSE None
        opdict1 == IF a.rendering /\ ~coarse.raised
                   THEN (IF coarse.fresh THEN ("attributes" :> coarse.stored.val) ELSE <<>>)
                        @@ [uv_texture |-> uv_texture, normals |-> normals,
                            uv_detail_normals |-> uv_detail_normals.data,
                            displacement_map |-> DisplacementMap(d),
                            uv_texture_gt |-> coarse.uv_texture_gt]
                        @@ opdict0
                   ELSE opdict0
        opdict2 == IF as.use_tex THEN ("albedo" :> albedo) @@ opdict1 ELSE opdict1
        \* return_vis: the renderer reads uv_texture_gt, which only the
        \* rendering stage defines
        lmk3d_out == IF a.render_orig THEN transform_points(landmarks3d) ELSE landmarks3d
        opdict3 == Keys({"grid", "rendered_images", "alpha_images", "normal_images"})
                   @@ (IF a.vis_lmk
                       THEN ("landmarks3d" :>
                               CatLast(lmk3d_out, visofp(TransformedNormals(d))))
                       ELSE <<>>)
                   @@ opdict2
        dense == IF a.rendering /\ ~coarse.raised /\ a.return_vis
                 THEN DenseStage(as, d, fl.verts, normals, DisplacementMap(d),
                                 uv_texture)
                 ELSE None
        opdict4 == IF dense.kind = "dense" /\ ~dense.raised /\ ~dense.tex.raised
                      /\ dense.tex.fresh
                   THEN ("dense_attributes" :> dense.tex.stored.val) @@ opdict3
                   ELSE opdict3
        unbound == IF a.return_vis
                   THEN FirstUnbound(DecodeVisReads, Bound(a.rendering), 1)
                   ELSE "none"
        raised_at ==
            IF a.rendering /\ coarse.raised THEN "coarse composite"
            ELSE IF ~a.return_vis THEN "none"
            ELSE IF unbound # "none" THEN "render"
            ELSE IF dense.kind # "dense" THEN "none"
            ELSE IF dense.raised THEN "dense projection"
            ELSE IF dense.tex.raised THEN "dense composite"
            ELSE "none"
    IN  [kind |-> "result", op |-> "decode", args |-> a, input |-> d, proj |-> proj,
         coarse |-> coarse, dense |-> dense, raised_at |-> raised_at,
         unbound |-> IF raised_at = "render" THEN unbound ELSE "none",
         ret |-> IF raised_at # "none" THEN "raise"
                 ELSE IF a.return_vis THEN "pair" ELSE "opdict",
         opdict |-> IF raised_at # "none" THEN <<>>
                    ELSE IF a.return_vis THEN opdict4 ELSE opdict2]

\* The whole of decode_coarse(codedict, rendering, return_vis, render_orig, ...)
decode_coarse(as, d, a) ==
    LET fl == flame(d)
        albedo == Albedo(as.use_tex, d)
        trans_verts == FlipFrom1(batch_orth_proj(fl.verts, d.cam))
        proj == [landmarks2d |-> None, landmarks3d |-> None,
                 trans_verts |-> trans_verts]
        opdict0 == [verts |-> fl.verts, trans_verts |-> trans_verts,
                    freeze_eyes |-> "freeze_eyes"]
        normals == VertexNormals(d)
        uv_detail_normals == displacement2normal(as, D_detail(d), fl.verts, normals)
        uv_texture == Mul(albedo, Shading(d))
        coarse == IF a.rendering
                  THEN TextureStage(as, d, "attributes", fl.verts, trans_verts,
                                    Faces, uv_texture, TRUE)
                  ELSE None
        opdict1 == IF a.rendering /\ ~coarse.raised
                   THEN (IF coarse.fresh THEN ("attributes" :> coarse.stored.val) ELSE <<>>)
                        @@ [uv_texture |-> uv_texture, normals |-> normals,
                            uv_detail_normals |-> uv_detail_normals.data,
                            displacement_map |-> DisplacementMap(d),
                            uv_texture_gt |-> coarse.uv_texture_gt]
                        @@ opdict0
                   ELSE opdict0
        opdict2 == [opdict1 EXCEPT !.trans_verts =
                        IF a.render_orig THEN transform_points(trans_verts)
                        ELSE trans_verts]
        unbound == IF a.return_vis
                   THEN FirstUnbound(CoarseVisReads, Bound(a.rendering), 1)
                   ELSE "none"
        raised_at ==
            IF a.rendering /\ coarse.raised THEN "coarse composite"
            ELSE IF unbound # "none" THEN "render"
            ELSE "none"
    IN  [kind |-> "result", op |-> "decode_coarse", args |-> a, input |-> d, proj |-> proj,
         coarse |-> coarse, dense |-> None, raised_at |-> raised_at,
         unbound |-> IF raised_at = "render" THEN unbound ELSE "none",
         ret |-> IF raised_at # "none" THEN "raise"
                 ELSE IF a.return_vis THEN "pair" ELSE "none",
         opdict |-> IF raised_at = "none" /\ a.return_vis THEN opdict2 ELSE <<>>]

----------------------------------------------------------------------------
(* visualize                                                               *)
(*                                                                         *)
(* A buffer of visdict is [h, w, value]: batch x 3 x h x w with the colour *)
(* value = <<r, g, b>> at every pixel, in numerators over Unit.            *)

\* The branch of lines 459-462 with the elif taken as an else
SizeBranchElse(dim) == IF dim = 2 THEN "horizontal" ELSE "vertical"

\* if dim == 2: ... elif dim == 1: ...   (no else: new_h, new_w stay unbound)
SizeBranch(dim) ==
    IF dim = 2 THEN "horizontal"
    ELSE IF dim = 1 THEN "vertical"
    ELSE "unbound"

\* new_h = size; new_w = int(w*size/h)   /   new_h = int(h*size/w); new_w = size
NewSize(branch, buf, size) ==
    IF branch = "horizontal"
    THEN [h |-> size, w |-> (buf.w * size) \div buf.h]
    ELSE [h |-> (buf.h * size) \div buf.w, w |-> size]

\* torchvision.utils.make_grid(tensor) with its defaults nrow = 8, padding = 2,
\* pad_value = 0: a single image is returned as it is, a batch is laid out in
\* rows of nrow images with a border of padding pixels
make_grid(B, h, w, value) ==
    IF B = 1
    THEN [h |-> h, w |-> w, value |-> value, padded |-> FALSE]
    ELSE LET xmaps == Min(GridRow, B)
             ymaps == (B + xmaps - 1) \div xmaps
         IN  [h |-> (h + GridPadding) * ymaps + GridPadding,
              w |-> (w + GridPadding) * xmaps + GridPadding,
              value |-> value, padded |-> TRUE]

\* np.minimum(np.maximum(x*255, 0), 255).astype(np.uint8), x = v / Unit
ToUint8(v) ==
    IF v * 255 <= 0 THEN 0
    ELSE IF v * 255 >= 255 * Unit THEN 255
    ELSE (v * 255) \div Unit

\* torch.cat(list(grids.values()), dim) of (C, H, W) grids along H or W:
\* the sizes along the other axis have to agree
CatOk(grids, dim) ==
    /\ dim \in {1, 2}
    /\ Len(grids) > 0
    /\ \A i, j \in 1..Len(grids) :
          IF dim = 2 THEN grids[i].h = grids[j].h ELSE grids[i].w = grids[j].w

RECURSIVE SumOf(_, _)
SumOf(lens, i) == IF i = 0 THEN 0 ELSE lens[i] + SumOf(lens, i - 1)

\* The whole of visualize(visdict, size, dim); c.optimized: the interpreter
\* runs with assert statements stripped (python -O)
visualize(c) ==
    LET assert_fails == ~c.optimized /\ ~(c.dim = 1 \/ c.dim = 2)
        branch == SizeBranch(c.dim)
        n == Len(c.visdict)
        grids == [k \in 1..n |->
                    LET sz == NewSize(branch, c.visdict[k], c.size)
                    IN  make_grid(c.batch, sz.h, sz.w, c.visdict[k].value)]
        failed(error, resized) ==
            [kind |-> "image", ret |-> "raise", error |-> error,
             resized |-> resized, concatenated |-> FALSE, dtype |-> "none",
             axis |-> 0, height |-> 0, width |-> 0, blocks |-> <<>>]
    IN  IF assert_fails THEN failed("AssertionError", 0)
        ELSE IF branch = "unbound" /\ n > 0 THEN failed("UnboundLocalError", 0)
        ELSE IF ~CatOk(grids, c.dim) THEN failed("cat", n)
        ELSE [kind |-> "image", ret |-> "image", error |-> "none",
              resized |-> n, concatenated |-> TRUE, dtype |-> "uint8",
              axis |-> c.dim,
              height |-> IF c.dim = 2 THEN grids[1].h
                         ELSE SumOf([k \in 1..n |-> grids[k].h], n),
              width |-> IF c.dim = 2 THEN SumOf([k \in 1..n |-> grids[k].w], n)
                        ELSE grids[1].w,
              \* [:,:,[2,1,0]]: the channels come out in the order b, g, r
              blocks |-> [k \in 1..n |->
                            [h |-> grids[k].h, w |-> grids[k].w,
                             padding |-> IF grids[k].padded THEN ToUint8(0) ELSE 0,
                             value |-> <<ToUint8(grids[k].value[3]),
                                         ToUint8(grids[k].value[2]),
                                         ToUint8(grids[k].value[1])>>]]]

----------------------------------------------------------------------------
(* The codec's inputs *)

StandardList == <<"shape", "tex", "exp", "pose", "cam", "light">>
LightEarlyList == <<"shape", "tex", "exp", "pose", "light", "cam">>
ParamLists == {StandardList, LightEarlyList}

\* The declared widths: n_pose is 3 global + 3 jaw components, n_light is 27
NumDicts ==
    {[key \in ParamKeys |->
        CASE key = "shape" -> s
          [] key = "tex" -> t
          [] key = "exp" -> e
          [] key = "pose" -> JawOffset + JawDim
          [] key = "cam" -> 3
          [] key = "light" -> LightRows * LightCols] :
     s \in 1..MaxBlock, t \in 1..MaxBlock, e \in 1..MaxBlock}

RECURSIVE SumWidths(_, _, _)
SumWidths(keys, num_dict, i) ==
    IF i > Len(keys) THEN 0
    ELSE num_dict[keys[i]] + SumWidths(keys, num_dict, i + 1)

\* self.n_param: the width of the encoder's output
n_param(keys, num_dict) == SumWidths(keys, num_dict, 1)

RECURSIVE Offset(_, _, _)
Offset(keys, num_dict, key) ==
    IF keys[1] = key THEN 0
    ELSE num_dict[keys[1]] + Offset(Tail(keys), num_dict, key)

\* A tensor whose elements are all different: element (b, i) is its own label
Labels(B, W) ==
    Tensor(B, W, [b \in 1..B |-> [i \in 1..W |-> (b - 1) * W + i]])

JawVectors == [1..JawDim -> 0..MaxAngle]

\* An encoder output: labels, with the jaw columns holding Euler angles
\* (sample b holds the triple rotated by b - 1 places)
EncoderOutput(B, keys, num_dict, jaw) ==
    LET W == n_param(keys, num_dict)
        lo == Offset(keys, num_dict, "pose") + JawOffset
    IN  Tensor(B, W,
          [b \in 1..B |-> [i \in 1..W |->
              IF i > lo /\ i <= lo + JawDim
              THEN jaw[((i - lo - 1 + b - 1) % JawDim) + 1]
              ELSE MaxAngle + (b - 1) * W + i]])

DecomposeCalls ==
    {[op |-> "decompose_code", code |-> Labels(B, n_param(keys, nd) + slack),
      keys |-> keys, num_dict |-> nd, jaw_type |-> "none", use_detail |-> FALSE] :
     B \in 1..MaxBatch, keys \in ParamLists, nd \in NumDicts,
     slack \in (0 - MaxSlack)..MaxSlack}

EncodeCalls ==
    {[op |-> "encode", code |-> EncoderOutput(B, keys, nd, jaw),
      keys |-> keys, num_dict |-> nd, jaw_type |-> jt, use_detail |-> ud] :
     B \in 1..MaxBatch, keys \in ParamLists, nd \in NumDicts,
     jaw \in JawVectors, jt \in {"euler", "aa"}, ud \in BOOLEAN}

DecodeIdle ==
    /\ assets = None
    /\ dcode = None
    /\ res = None
    /\ prev = None

InitCodec ==
    /\ call \in DecomposeCalls \cup EncodeCalls
    /\ parameters = call.code
    /\ codedict = <<>>
    /\ raised = FALSE
    /\ pc = "start"
    /\ DecodeIdle

\* A direct call of decompose_code(code, num_dict)
Decompose ==
    /\ pc = "start"
    /\ call.op = "decompose_code"
    /\ LET d == decompose_code(call.code, call.keys, call.num_dict)
       IN  /\ raised' = d.raised
           /\ codedict' = d.code_dict
    /\ pc' = "done"
    /\ UNCHANGED <<call, parameters, decode_vars>>

\* A call of encode(images, use_detail)
Encode ==
    /\ pc = "start"
    /\ call.op = "encode"
    /\ LET r == encode(call)
       IN  /\ raised' = r.raised
           /\ parameters' = r.parameters
           /\ codedict' = r.codedict
    /\ pc' = "done"
    /\ UNCHANGED <<call, decode_vars>>

NextCodec == Decompose \/ Encode

SpecCodec == InitCodec /\ [][NextCodec]_vars

----------------------------------------------------------------------------
(* The decode session: a caller decodes a CodeDict, may thread the returned *)
(* cache entries back into it, may change the camera, and decodes again     *)

Cams == {<<1, 0, 0>>, <<2, 1, 0>>}

ChannelCounts == {3, 4}

MaskPatterns ==
    {[t \in Texels |-> 0], [t \in Texels |-> Unit], [t \in Texels |-> t % (Unit + 1)]}

\* The static assets and configuration fixed by __init__ / _setup_renderer
\* (both resolutions of the face/eye mask are resampled from one image), and
\* whether the installed tensor library raises on the dense stage's
\* batch mismatch or broadcasts over it
Assets ==
    {[kind |-> "assets", use_tex |-> u, lib_raises |-> x,
      uv_face_eye_mask |-> Img(1, 1, Unit, <<<<m>>>>),
      uv_face_eye_mask_coarse |-> interpolate(m, NumCoarseTexels),
      fixed_uv_dis |-> [t \in CoarseTexels |-> t % 2]] :
     u \in BOOLEAN, x \in BOOLEAN, m \in MaskPatterns}

\* The CodeDicts a caller hands to the first decode: no cache entries yet
CodeDicts ==
    {[kind |-> "codedict", batch |-> B, shape |-> g,
      cam |-> [b \in 1..B |-> c],
      hr |-> [chan |-> C, seed |-> g + 1],
      detail |-> g + 1,
      attributes |-> None, dense_attributes |-> None] :
     B \in 1..MaxBatch, g \in 0..MaxSeed, c \in Cams, C \in ChannelCounts}

\* The flag combinations; a flag that the call never reads keeps its default
DecodeCalls ==
    {[op |-> "decode", rendering |-> r, return_vis |-> FALSE,
      vis_lmk |-> TRUE, render_orig |-> FALSE] : r \in BOOLEAN}
    \cup
    {[op |-> "decode", rendering |-> r, return_vis |-> TRUE,
      vis_lmk |-> v, render_orig |-> o] :
     r \in BOOLEAN, v \in BOOLEAN, o \in BOOLEAN}
    \cup
    {[op |-> "decode_coarse", rendering |-> r, return_vis |-> FALSE,
      vis_lmk |-> TRUE, render_orig |-> FALSE] : r \in BOOLEAN}
    \cup
    {[op |-> "decode_coarse", rendering |-> r, return_vis |-> TRUE,
      vis_lmk |-> TRUE, render_orig |-> o] : r \in BOOLEAN, o \in BOOLEAN}

CodecIdle ==
    /\ parameters = None
    /\ codedict = <<>>
    /\ raised = FALSE

InitDecode ==
    /\ call \in DecodeCalls
    /\ assets \in Assets
    /\ dcode \in CodeDicts
    /\ res = None
    /\ prev = None
    /\ pc = "start"
    /\ CodecIdle

\* A call of decode on the caller's current CodeDict
Decode ==
    /\ pc \in {"start", "cached"}
    /\ call.op = "decode"
    /\ res' = decode(assets, dcode, call)
    /\ prev' = res
    /\ pc' = IF pc = "start" THEN "called" ELSE "recalled"
    /\ UNCHANGED <<call, assets, dcode, parameters, codedict, raised>>

\* A call of decode_coarse on the caller's current CodeDict
DecodeCoarse ==
    /\ pc \in {"start", "cached"}
    /\ call.op = "decode_coarse"
    /\ res' = decode_coarse(assets, dcode, call)
    /\ prev' = res
    /\ pc' = IF pc = "start" THEN "called" ELSE "recalled"
    /\ UNCHANGED <<call, assets, dcode, parameters, codedict, raised>>

CacheKeys == {"attributes", "dense_attributes"}

\* The caller threads returned cache entries into the next call's CodeDict
CacheAttributes ==
    /\ pc = "called"
    /\ res.ret \in {"pair", "opdict"}
    /\ \E keys \in (SUBSET (CacheKeys \cap DOMAIN res.opdict)) \ {{}} :
          dcode' = [k \in DOMAIN dcode |->
                       IF k \in keys THEN Some(res.opdict[k]) ELSE dcode[k]]
    /\ pc' = "cached"
    /\ UNCHANGED <<call, assets, res, prev, parameters, codedict, raised>>

\* The caller changes the camera and keeps the cache entries
ChangeCam ==
    /\ pc = "cached"
    /\ \E c \in Cams \ {dcode.cam[1]} :
          dcode' = [dcode EXCEPT !.cam = [b \in 1..dcode.batch |-> c]]
    /\ UNCHANGED <<call, assets, res, prev, pc, parameters, codedict, raised>>

NextDecode == Decode \/ DecodeCoarse \/ CacheAttributes \/ ChangeCam

SpecDecode == InitDecode /\ [][NextDecode]_vars

----------------------------------------------------------------------------
(* displacement2normal on its own: the inputs of one call, then the call *)

CoarseMaskPatterns ==
    {[t \in CoarseTexels |-> 0], [t \in CoarseTexels |-> Unit],
     [t \in CoarseTexels |-> t % (Unit + 1)],
     [t \in CoarseTexels |-> (t + 1) % (Unit + 1)]}

FixedBiasPatterns == {[t \in CoarseTexels |-> 0], [t \in CoarseTexels |-> t % 2]}

\* The static assets displacement2normal reads
NormalAssets ==
    {[kind |-> "assets", uv_face_eye_mask_coarse |-> m, fixed_uv_dis |-> f] :
     m \in CoarseMaskPatterns, f \in FixedBiasPatterns}

\* The calls: a batch of coarse meshes and the detail code their displacement
\* raster is generated from
NormalCalls ==
    {[op |-> "displacement2normal", batch |-> B, shape |-> g, detail |-> z] :
     B \in 1..MaxBatch, g \in 0..MaxSeed, z \in 0..(MaxZ + 1)}

InitNormal ==
    /\ call \in NormalCalls
    /\ assets \in NormalAssets
    /\ dcode = None
    /\ res = None
    /\ prev = None
    /\ pc = "start"
    /\ CodecIdle

\* A call of displacement2normal(uv_z, verts, normals)
Displacement2Normal ==
    /\ pc = "start"
    /\ call.op = "displacement2normal"
    /\ res' = displacement2normal(assets, D_detail(call), flame(call).verts,
                                  VertexNormals(call))
    /\ pc' = "done"
    /\ UNCHANGED <<call, assets, dcode, prev, parameters, codedict, raised>>

NextNormal == Displacement2Normal

SpecNormal == InitNormal /\ [][NextNormal]_vars

----------------------------------------------------------------------------
(* visualize on its own: a visdict of buffers that share the batch size, as *)
(* decode returns it, the target size and the orientation selector         *)

VisValues == {<<0 - 1, 1, Unit + 1>>, <<1, 0, Unit>>, <<Unit + 2, 0 - 2, 1>>}

Buffers == [h : 1..MaxSide, w : 1..MaxSide, value : VisValues]

VisDicts == {<<x>> : x \in Buffers} \cup {<<x, y>> : x \in Buffers, y \in Buffers}

VisCalls ==
    {[op |-> "visualize", visdict |-> v, batch |-> B, size |-> MaxSide * k,
      dim |-> d, optimized |-> o] :
     v \in VisDicts, B \in 1..MaxBatch, k \in 1..2, d \in 0..MaxDim, o \in BOOLEAN}

InitVis ==
    /\ call \in VisCalls
    /\ assets = None
    /\ dcode = None
    /\ res = None
    /\ prev = None
    /\ pc = "start"
    /\ CodecIdle

\* A call of visualize(visdict, size, dim)
Visualize ==
    /\ pc = "start"
    /\ call.op = "visualize"
    /\ res' = visualize(call)
    /\ pc' = "done"
    /\ UNCHANGED <<call, assets, dcode, prev, parameters, codedict, raised>>

NextVis == Visualize

SpecVis == InitVis /\ [][NextVis]_vars

----------------------------------------------------------------------------
(* Properties of the codec *)

FlattenLight(l) ==
    [j \in 1..(LightRows * LightCols) |->
        l[((j - 1) \div LightCols) + 1][((j - 1) % LightCols) + 1]]

\* Row b of the blocks of keys[i..], concatenated in the order of the list
RECURSIVE ConcatBlocks(_, _, _, _, _)
ConcatBlocks(store, cd, keys, i, b) ==
    IF i > Len(keys) THEN <<>>
    ELSE (IF keys[i] = "light"
          THEN FlattenLight(Value(store, cd[keys[i]])[b])
          ELSE Value(store, cd[keys[i]])[b])
         \o ConcatBlocks(store, cd, keys, i + 1, b)

\* The views start at 0, each starts where the one before ends, the last ends
\* at the width, and each has its declared width
Contiguous(cd, keys, num_dict, W) ==
    /\ cd[keys[1]].lo = 0
    /\ cd[keys[Len(keys)]].hi = W
    /\ \A i \in 1..Len(keys) : ViewWidth(cd[keys[i]]) = num_dict[keys[i]]
    /\ \A i \in 1..(Len(keys) - 1) : cd[keys[i + 1]].lo = cd[keys[i]].hi

ValidDecompose ==
    /\ pc = "done"
    /\ call.op = "decompose_code"
    /\ call.code.width = n_param(call.keys, call.num_dict)

\* C1: for a flat tensor whose width is the sum of the declared widths,
\* decompose_code returns blocks that are contiguous, gap-free slices in the
\* order of the block list starting at offset 0; concatenating them in that
\* order, the light block flattened, gives back every row of the tensor; and
\* the light block has shape (batch, 9, 3).
C1_RoundTrip ==
    ValidDecompose =>
        /\ ~raised
        /\ DOMAIN codedict = ParamKeys
        /\ Contiguous(codedict, call.keys, call.num_dict, call.code.width)
        /\ \A b \in 1..call.code.batch :
              /\ ConcatBlocks(parameters, codedict, call.keys, 1, b)
                    = call.code.data[b]
              /\ LET l == Value(parameters, codedict["light"])[b]
                 IN  /\ DOMAIN l = 1..LightRows
                     /\ \A r \in 1..LightRows : DOMAIN l[r] = 1..LightCols
        /\ DOMAIN Value(parameters, codedict["light"]) = 1..call.code.batch

C1_Witness ==
    /\ ValidDecompose
    /\ ~raised
    /\ call.code.batch = MaxBatch
    /\ call.keys = LightEarlyList
    /\ codedict["cam"].lo = codedict["light"].lo + LightRows * LightCols

\* C2: decompose_code raises, and returns no CodeDict, whenever the width of
\* the flat tensor differs from the sum of the declared widths, be it wider
\* or narrower.
C2_ShapeMismatchRaises ==
    (/\ pc = "done"
     /\ call.op = "decompose_code"
     /\ call.code.width # n_param(call.keys, call.num_dict))
        => (raised /\ codedict = <<>>)

JawView(cd) == SubView(cd["pose"], JawOffset)

GlobalView(cd) == [cd["pose"] EXCEPT !.hi = Min(cd["pose"].lo + JawOffset, cd["pose"].hi)]

\* C3: encode with the euler jaw convention returns a CodeDict whose
\* pose[:, 3:] is the axis-angle conversion of the encoder's jaw Euler angles,
\* whose pose[:, :3] and other parameter blocks are as the encoder produced
\* them, and whose 'euler_jaw_pose' holds the Euler angles from before the
\* conversion; with another convention the pose block is as sliced and there
\* is no 'euler_jaw_pose' key.
C3_EulerJaw ==
    (pc = "done" /\ call.op = "encode") =>
        /\ ~raised
        /\ \A key \in ParamKeys \ {"pose"} :
              Value(parameters, codedict[key]) = Value(call.code, codedict[key])
        /\ Read(parameters, GlobalView(codedict))
              = Read(call.code, GlobalView(codedict))
        /\ Contiguous(codedict, call.keys, call.num_dict, call.code.width)
        /\ IF call.jaw_type = "euler"
           THEN /\ Read(parameters, JawView(codedict))
                     = batch_euler2axis(Read(call.code, JawView(codedict)))
                /\ "euler_jaw_pose" \in DOMAIN codedict
                /\ Value(parameters, codedict["euler_jaw_pose"])
                     = Read(call.code, JawView(codedict))
           ELSE /\ Read(parameters, JawView(codedict))
                     = Read(call.code, JawView(codedict))
                /\ "euler_jaw_pose" \notin DOMAIN codedict

\* An Euler triple about two axes is converted to something else, and kept
C3_Witness ==
    /\ pc = "done"
    /\ call.op = "encode"
    /\ call.jaw_type = "euler"
    /\ ~raised
    /\ Read(parameters, JawView(codedict)) # Read(call.code, JawView(codedict))
    /\ Value(parameters, codedict["euler_jaw_pose"])
          = Read(call.code, JawView(codedict))

----------------------------------------------------------------------------
(* Properties of decode and decode_coarse *)

Called == res.kind = "result"

Returned == Called /\ res.ret \in {"pair", "opdict"}

\* The texture stages the last call went through: the coarse one, and in
\* decode with return_vis the dense one
CoarseReached == Called /\ res.coarse.kind = "texture"

DenseEntered == Called /\ res.dense.kind = "dense"

DenseReached == DenseEntered /\ res.dense.tex.kind = "texture"

TexStages ==
    (IF CoarseReached THEN {res.coarse} ELSE {})
    \cup (IF DenseReached THEN {res.dense.tex} ELSE {})

Samples == 1..res.input.batch

\* The blend of one texture stage, texel by texel, in numerators: the sampled
\* colour and the synthesized texture have denominator Unit, the composite
\* mask Unit * Unit, the result Unit * Unit * Unit
BlendHolds(st) ==
    /\ st.uv_texture_gt.chan = 3
    /\ st.uv_texture_gt.batch = res.input.batch
    /\ \A b \in Samples, ch \in 1..3, t \in Texels :
          LET m == At(st.uv_face_eye_mask, b, ch, t)
              gt == st.uv_gt.data[b][ch][t]
              syn == st.uv_texture.data[b][ch][t]
              out == st.uv_texture_gt.data[b][ch][t]
          IN  /\ out = gt * m + syn * (Unit * Unit - m)
              /\ (m = Unit * Unit => out = gt * Unit * Unit)
              /\ (m = 0 => out = syn * Unit * Unit)

\* C4: with the textured-albedo model, at every texel of every texture stage
\* that computes a composite (coarse in decode and decode_coarse, dense in
\* decode), uv_texture_gt = sampled colour * composite mask + synthesized
\* texture * (1 - composite mask) on the three colour channels; so a mask of 1
\* gives the sampled colour and a mask of 0 the synthesized texture; and the
\* coarse composite is what the call returns as opdict['uv_texture_gt'].
C4_Composite ==
    (Called /\ assets.use_tex) =>
        /\ \A st \in TexStages : ~st.raised => BlendHolds(st)
        /\ (Returned /\ CoarseReached)
              => res.opdict["uv_texture_gt"] = res.coarse.uv_texture_gt

\* decode went through both composites; in the dense one a sample has a
\* composite mask of all ones with a sampled colour unlike the synthesized
\* one
C4_Witness ==
    /\ Called /\ assets.use_tex /\ res.op = "decode"
    /\ DenseReached /\ ~res.dense.tex.raised
    /\ \E b \in Samples :
          /\ \A ch \in 1..3, t \in Texels :
                At(res.dense.tex.uv_face_eye_mask, b, ch, t) = Unit * Unit
          /\ \E ch \in 1..3, t \in Texels :
                res.dense.tex.uv_gt.data[b][ch][t] # res.dense.tex.uv_texture.data[b][ch][t]

SameButCache(d1, d2) ==
    /\ d1.batch = d2.batch
    /\ d1.shape = d2.shape
    /\ d1.cam = d2.cam
    /\ d1.hr = d2.hr
    /\ d1.detail = d2.detail
    /\ d1.dense_attributes = d2.dense_attributes

\* The second call gets the first call's input plus its returned 'attributes'
ReusesFirstCall ==
    /\ pc = "recalled"
    /\ prev.kind = "result"
    /\ prev.ret \in {"pair", "opdict"}
    /\ prev.input.attributes.kind = "none"
    /\ "attributes" \in DOMAIN prev.opdict
    /\ res.input.attributes = Some(prev.opdict["attributes"])
    /\ SameButCache(prev.input, res.input)

\* C5: if decode runs without 'attributes' and the 'attributes' it returns are
\* put into the CodeDict of a second call with otherwise unchanged input, the
\* second call uses the cached value instead of recomputing, projects the
\* same UV sample coordinates and returns the same uv_texture_gt.
C5_CacheReuse ==
    ReusesFirstCall =>
        /\ CoarseReached
        /\ ~res.coarse.fresh
        /\ res.coarse.attributes_arg = Some(prev.opdict["attributes"])
        /\ res.coarse.uv_pverts = prev.coarse.uv_pverts
        /\ res.coarse.uv_texture_gt = prev.coarse.uv_texture_gt
        /\ Returned
        /\ res.opdict["uv_texture_gt"] = prev.opdict["uv_texture_gt"]
        /\ "attributes" \notin DOMAIN res.opdict

\* A second decode that reuses the cache, on vertices that the projection moves
C5_Witness ==
    /\ ReusesFirstCall
    /\ res.op = "decode"
    /\ res.proj.trans_verts # flame(res.input).verts
    /\ \E b \in Samples, t \in Texels : res.coarse.uv_gt.data[b][1][t] # 0

\* One cache branch: the entry under key, the stage that used it, and the
\* projected vertices and faces a fresh computation starts from
CacheBranchHolds(key, st, trans_verts, faces) ==
    IF res.input[key].kind = "none"
    THEN /\ st.fresh
         /\ st.attributes_arg.kind = "none"
         /\ st.uv_pverts = world2uv(face_vertices(trans_verts, faces))
         /\ (Returned /\ ~st.raised)
               => /\ key \in DOMAIN res.opdict
                  /\ res.opdict[key] = face_vertices(trans_verts, faces)
    ELSE /\ ~st.fresh
         /\ st.attributes_arg = res.input[key]
         /\ st.uv_pverts = world2uv(res.input[key].val)
         /\ Returned => key \notin DOMAIN res.opdict

\* C6: a missing cache entry is not an error.  Without 'attributes'
\* ('dense_attributes') in the CodeDict the call computes the correspondence
\* from the current projected vertices and returns it under the same key;
\* with the entry present the renderer gets it unchanged; either way the
\* stage goes on to sample the image.  Coarse cache in decode and
\* decode_coarse, dense cache in decode.
C6_MissingCache ==
    Called =>
        /\ res.args.rendering <=> CoarseReached
        /\ CoarseReached =>
              /\ CacheBranchHolds("attributes", res.coarse,
                                  res.proj.trans_verts, Faces)
              /\ res.coarse.uv_gt.kind = "img"
              /\ res.coarse.uv_gt_mask.kind = "img"
        /\ DenseReached =>
              /\ CacheBranchHolds("dense_attributes", res.dense.tex,
                                  res.dense.dense_trans_verts, res.dense.dense_faces)
              /\ res.dense.tex.uv_gt.kind = "img"
              /\ res.dense.tex.uv_gt_mask.kind = "img"

\* A decode whose coarse entry is cached and whose dense entry is missing,
\* after the camera changed: the coarse stage samples at the cached
\* coordinates, the dense stage computes fresh ones
C6_Witness ==
    /\ pc = "recalled"
    /\ Returned
    /\ res.op = "decode"
    /\ DenseReached
    /\ res.input.attributes.kind = "some"
    /\ res.input.dense_attributes.kind = "none"
    /\ "dense_attributes" \in DOMAIN res.opdict
    /\ res.coarse.uv_pverts # world2uv(face_vertices(res.proj.trans_verts, Faces))

\* A projected point set: scaled and translated, then every axis after the
\* first negated once
ProjectedFlipped(X, cam, P) ==
    /\ Len(P) = Len(cam)
    /\ \A b \in 1..Len(P) :
          /\ Len(P[b]) = Len(X[IF Len(X) = 1 THEN 1 ELSE b])
          /\ \A n \in 1..Len(P[b]) :
                LET q == batch_orth_proj(X, cam)[b][n]
                IN  /\ P[b][n][1] = q[1]
                    /\ \A k \in 2..Len(P[b][n]) : P[b][n][k] = 0 - q[k]

\* C7: every call site of the orthographic projection negates the same axes
\* of the projected tensor, once: the vertical axis, and the depth axis where
\* the tensor has one (coarse vertices in decode and decode_coarse, dense
\* vertices, 3D landmarks, 2D landmarks); so a vertex that is also a landmark
\* has the same vertical coordinate in both tensors.
C7_Negation ==
    Called =>
        LET fl == flame(res.input)
            cam == res.input.cam
        IN  /\ ProjectedFlipped(fl.verts, cam, res.proj.trans_verts)
            /\ \A b \in Samples, n \in 1..NumVerts : Len(res.proj.trans_verts[b][n]) = 3
            /\ res.op = "decode" =>
                  /\ ProjectedFlipped(fl.landmarks3d, cam, res.proj.landmarks3d)
                  /\ ProjectedFlipped(fl.landmarks2d, cam, res.proj.landmarks2d)
                  /\ \A b \in Samples, l \in 1..Len(Lmk2dIdx) :
                        /\ Len(res.proj.landmarks2d[b][l]) = 2
                        /\ res.proj.landmarks2d[b][l][2]
                              = res.proj.trans_verts[b][Lmk2dIdx[l]][2]
                  /\ \A b \in Samples, l \in 1..Len(Lmk3dIdx) :
                        /\ Len(res.proj.landmarks3d[b][l]) = 3
                        /\ res.proj.landmarks3d[b][l]
                              = res.proj.trans_verts[b][Lmk3dIdx[l]]
            /\ DenseReached =>
                  ProjectedFlipped(res.dense.dense_vertices, cam,
                                   res.dense.dense_trans_verts)

\* A decode that projected all four tensors, with a vertex off the horizontal
\* axis, so that the negation shows
C7_Witness ==
    /\ Called /\ res.op = "decode" /\ DenseReached
    /\ \E b \in Samples, l \in 1..Len(Lmk2dIdx) :
          /\ res.proj.landmarks2d[b][l][2] # 0
          /\ res.proj.landmarks2d[b][l][2]
                = 0 - batch_orth_proj(flame(res.input).landmarks2d, res.input.cam)[b][l][2]
    /\ \E n \in 1..(NumVerts + 1) : res.dense.dense_trans_verts[1][n][2] # 0

\* C8: visofp gives 1 for a landmark iff the depth component of its normal is
\* strictly below 0.1 (a component equal to 0.1 gives 0); decode with
\* return_vis and vis_lmk appends that value to the projected landmarks3d as
\* a fourth channel, and opdict['landmarks3d'] has 3 channels otherwise.
C8_Visibility ==
    (Returned /\ res.op = "decode") =>
        \A b \in Samples, l \in 1..Len(Lmk3dIdx) :
            LET lm == res.opdict["landmarks3d"][b][l]
                depth == TransformedNormals(res.input)[b][Lmk3dIdx[l]][3]
                base == IF res.args.render_orig
                        THEN transform_points(res.proj.landmarks3d)[b][l]
                        ELSE res.proj.landmarks3d[b][l]
            IN  IF res.args.return_vis /\ res.args.vis_lmk
                THEN /\ Len(lm) = 4
                     /\ SubSeq(lm, 1, 3) = base
                     /\ lm[4] \in {0, 1}
                     /\ lm[4] = 1 <=> depth < VisThresholdTenths
                     /\ depth = VisThresholdTenths => lm[4] = 0
                ELSE /\ Len(lm) = 3
                     /\ lm = res.proj.landmarks3d[b][l]

\* One landmark whose normal has depth exactly 0.1 (not visible) and one below
C8_Witness ==
    /\ Returned /\ res.op = "decode"
    /\ res.args.return_vis /\ res.args.vis_lmk
    /\ \E b \in Samples, l \in 1..Len(Lmk3dIdx) :
          /\ TransformedNormals(res.input)[b][Lmk3dIdx[l]][3] = VisThresholdTenths
          /\ res.opdict["landmarks3d"][b][l][4] = 0
    /\ \E b \in Samples, l \in 1..Len(Lmk3dIdx) :
          res.opdict["landmarks3d"][b][l][4] = 1

\* C9: for every batch size the dense stage of decode treats every sample
\* alike: the dense tensors have the batch size of the high-resolution image
\* and sample b's dense mesh is the upsampling of sample b's coarse mesh, with
\* more vertices and faces than the coarse mesh.
C9_DenseBatchUniform ==
    DenseEntered =>
        /\ Len(res.dense.dense_vertices) = res.input.batch
        /\ \A b \in Samples :
              /\ res.dense.dense_vertices[b]
                    = upsample_mesh(flame(res.input).verts[b],
                                    VertexNormals(res.input)[b],
                                    DisplacementMap(res.input)[b]).vertices
              /\ Len(res.dense.dense_vertices[b]) > NumVerts
        /\ Len(res.dense.dense_faces) > Len(Faces)

\* C10 as claimed: without the textured-albedo model uv_texture_gt is the
\* sampled colour on the three colour channels and the composite mask still
\* restricts it: a texel whose composite mask is 0 carries no sampled colour.
C10_MaskRestricts ==
    (Called /\ ~assets.use_tex) =>
        \A st \in TexStages :
            \A b \in Samples, ch \in 1..3, t \in Texels :
                /\ st.uv_texture_gt.data[b][ch][t] = st.uv_gt.data[b][ch][t]
                /\ At(st.uv_face_eye_mask, b, ch, t) = 0
                      => st.uv_texture_gt.data[b][ch][t] = 0

\* C10 amended: without the textured-albedo model uv_texture_gt is the
\* sampled colour uv_gt[:, :3] at every texel whatever the composite mask;
\* the composite mask, static face/eye mask * validity, is still computed
\* (for the renderer) but is not applied to uv_texture_gt.
C10_SampledDirectly ==
    (Called /\ ~assets.use_tex) =>
        /\ \A st \in TexStages :
              /\ ~st.raised
              /\ st.uv_texture_gt.chan = 3
              /\ st.uv_texture_gt.den = st.uv_gt.den
              /\ \A b \in Samples, ch \in 1..3, t \in Texels :
                    /\ st.uv_texture_gt.data[b][ch][t] = st.uv_gt.data[b][ch][t]
                    /\ \A mch \in 1..st.uv_face_eye_mask.chan :
                          st.uv_face_eye_mask.data[b][mch][t]
                             = assets.uv_face_eye_mask.data[1][1][t]
                                 * st.uv_gt_mask.data[b][mch][t]
        /\ (Returned /\ CoarseReached)
              => res.opdict["uv_texture_gt"] = res.coarse.uv_texture_gt

\* A texel with composite mask 0 (static mask 0, sample valid) that carries
\* the sampled colour in uv_texture_gt
C10_Witness ==
    /\ Called /\ ~assets.use_tex
    /\ \E st \in TexStages : \E b \in Samples, ch \in 1..3, t \in Texels :
          /\ At(st.uv_face_eye_mask, b, ch, t) = 0
          /\ st.uv_gt_mask.data[b][1][t] # 0
          /\ st.uv_texture_gt.data[b][ch][t] # 0

\* The static face/eye mask lies in [0,1]
StaticInRange ==
    \A t \in Texels :
        /\ assets.uv_face_eye_mask.data[1][1][t] >= 0
        /\ assets.uv_face_eye_mask.data[1][1][t] <= assets.uv_face_eye_mask.den

\* a/da <= v/dv <= b/db or b/db <= v/dv <= a/da, for positive denominators
Between(v, dv, a, da, b, db) ==
    \/ (a * dv <= v * da /\ v * db <= b * dv)
    \/ (b * dv <= v * db /\ v * da <= a * dv)

\* v/dv lies in [0,1]
InUnit(v, dv) == 0 <= v /\ v <= dv

\* C11: in every call of decode or decode_coarse that reaches a texture
\* stage, when the static face/eye mask lies in [0,1] the composite mask,
\* static mask * validity buffer, lies in [0,1] at every texel, and the
\* uv_texture_gt the stage produces lies, texel by texel, between the sampled
\* colour and the synthesized texture; so it lies in [0,1] where both do.
C11_MaskRange ==
    (Called /\ StaticInRange) =>
        \A st \in TexStages :
            /\ \A b \in Samples, ch \in 1..st.uv_face_eye_mask.chan, t \in Texels :
                  InUnit(st.uv_face_eye_mask.data[b][ch][t], st.uv_face_eye_mask.den)
            /\ ~st.raised =>
                  \A b \in Samples, ch \in 1..3, t \in Texels :
                      LET out == st.uv_texture_gt.data[b][ch][t]
                          od == st.uv_texture_gt.den
                          gt == st.uv_gt.data[b][ch][t]
                          syn == st.uv_texture.data[b][ch][t]
                      IN  /\ Between(out, od, gt, st.uv_gt.den, syn, st.uv_texture.den)
                          /\ (InUnit(gt, st.uv_gt.den) /\ InUnit(syn, st.uv_texture.den))
                                => InUnit(out, od)

\* A composite with a fractional mask at a texel where the sampled colour
\* and the synthesized texture differ, the result strictly between the two;
\* and a texel whose synthesized texture exceeds 1
C11_Witness ==
    /\ Called /\ assets.use_tex /\ CoarseReached /\ ~res.coarse.raised
    /\ \E b \in Samples, ch \in 1..3, t \in Texels :
          LET st == res.coarse
              m == At(st.uv_face_eye_mask, b, ch, t)
              out == st.uv_texture_gt.data[b][ch][t]
              gt == st.uv_gt.data[b][ch][t] * st.uv_face_eye_mask.den
              syn == st.uv_texture.data[b][ch][t] * st.uv_face_eye_mask.den
          IN  /\ 0 < m /\ m < st.uv_face_eye_mask.den
              /\ gt # syn
              /\ out # gt /\ out # syn
    /\ \E b \in Samples, ch \in 1..3, t \in Texels :
          res.coarse.uv_texture.data[b][ch][t] > res.coarse.uv_texture.den

----------------------------------------------------------------------------
(* Properties of displacement2normal *)

NormalDone == res.kind = "normals"

\* The unwrapped coarse positions and normals of the call's mesh
UnwrappedVerts == world2uv_coarse(face_vertices(flame(call).verts, Faces))

UnwrappedNormals == world2uv_coarse(face_vertices(VertexNormals(call), Faces))

\* The detailed position that the masked displacement gives at texel s of
\* sample b, over Unit
ExpectedDetail(b, s) ==
    LET m == assets.uv_face_eye_mask_coarse[s]
        z == D_detail(call)[b][s]
        n == UnwrappedNormals[b][s]
    IN  VAdd(VAdd(VScale(Unit, UnwrappedVerts[b][s]), VScale(z * m, n)),
             VScale(Unit * assets.fixed_uv_dis[s], n))

ZeroField(b) == \A s \in CoarseTexels : D_detail(call)[b][s] = 0

\* C12: displacement2normal masks the displacement by the coarse face/eye
\* mask before the detailed positions and their normals are computed, and
\* blends the recomputed normals with the unwrapped coarse normals by the
\* same mask afterwards: at a texel whose mask is 0 the detailed position
\* ignores the displacement and the result is the coarse normal exactly, at a
\* texel whose mask is 1 the result is the normal recomputed from the
\* detailed positions, with a zero displacement field the detailed positions
\* differ from the unwrapped coarse positions by fixed_uv_dis * unwrapped
\* normal only, and the output raster has uv_size texels.
C12_MaskBlend ==
    NormalDone =>
        \A b \in 1..call.batch :
            /\ Len(res.data) = call.batch
            /\ Len(res.data[b]) = NumTexels
            /\ \A s \in CoarseTexels :
                  /\ res.uv_detail_vertices[b][s] = ExpectedDetail(b, s)
                  /\ assets.uv_face_eye_mask_coarse[s] = 0 =>
                        res.uv_detail_vertices[b][s]
                           = VScale(Unit, VAdd(UnwrappedVerts[b][s],
                                               VScale(assets.fixed_uv_dis[s],
                                                      UnwrappedNormals[b][s])))
                  /\ ZeroField(b) =>
                        VSub(res.uv_detail_vertices[b][s],
                             VScale(Unit, UnwrappedVerts[b][s]))
                           = VScale(Unit * assets.fixed_uv_dis[s], UnwrappedNormals[b][s])
            /\ \A t \in Texels :
                  LET s == NearestIndex(t, NumCoarseTexels, NumTexels)
                      m == assets.uv_face_eye_mask_coarse[s]
                      detail == vertex_normals_dense(
                                    [x \in 1..call.batch |->
                                        [y \in CoarseTexels |-> ExpectedDetail(x, y)]])[b][s]
                  IN  /\ m = 0 => res.data[b][t]
                                     = VScale(res.den, UnwrappedNormals[b][s])
                      /\ m = Unit => res.data[b][t] = VScale(Unit, detail)

\* One call in which a texel of mask 0 carries a nonzero displacement and a
\* recomputed normal unlike the coarse one, a texel of mask 1 returns a
\* normal unlike the coarse one, and a sample with the zero displacement
\* field is moved by a nonzero bias
C12_Witness ==
    /\ NormalDone
    /\ \E b \in 1..call.batch, t \in Texels :
          LET s == NearestIndex(t, NumCoarseTexels, NumTexels)
          IN  /\ assets.uv_face_eye_mask_coarse[s] = 0
              /\ D_detail(call)[b][s] # 0
              /\ res.dense_normals[b][s] # VScale(Unit * Unit, UnwrappedNormals[b][s])
    /\ \E b \in 1..call.batch, t \in Texels :
          LET s == NearestIndex(t, NumCoarseTexels, NumTexels)
          IN  /\ assets.uv_face_eye_mask_coarse[s] = Unit
              /\ res.data[b][t] # VScale(res.den, UnwrappedNormals[b][s])
    /\ \E b \in 1..call.batch, s \in CoarseTexels :
          /\ ZeroField(b)
          /\ res.uv_detail_vertices[b][s] # VScale(Unit, UnwrappedVerts[b][s])

----------------------------------------------------------------------------
(* Properties of visualize *)

VisDone == res.kind = "image"

\* C13: visualize fails, before it resizes or concatenates any buffer,
\* whenever the orientation selector dim is neither 1 nor 2; for dim 1 or 2
\* it returns an 8-bit image whose every value lies in 0..255, the grids
\* resized to the common size along one axis (height for dim 2, width for
\* dim 1) and concatenated along the other axis, which is axis dim.
C13_Visualize ==
    VisDone =>
        /\ call.dim \notin {1, 2} =>
              /\ res.ret = "raise"
              /\ res.resized = 0
              /\ ~res.concatenated
        /\ call.dim \in {1, 2} =>
              /\ res.ret = "image"
              /\ res.dtype = "uint8"
              /\ res.resized = Len(call.visdict)
              /\ res.concatenated
              /\ res.axis = call.dim
              /\ Len(res.blocks) = Len(call.visdict)
              /\ \A k \in 1..Len(res.blocks) :
                    LET blk == res.blocks[k]
                        \* a batch of at most GridRow images is one row of the grid
                        row_h == IF call.batch = 1 THEN call.size
                                 ELSE call.size + 2 * GridPadding
                        row_w == IF call.batch = 1 THEN call.size
                                 ELSE call.batch * (call.size + GridPadding) + GridPadding
                    IN  /\ \A ch \in 1..3 : blk.value[ch] \in 0..255
                        /\ blk.padding \in 0..255
                        /\ call.dim = 2 => (blk.h = row_h /\ res.height = row_h)
                        /\ call.dim = 1 => (blk.w = row_w /\ res.width = row_w)
              /\ call.dim = 2 =>
                    res.width = SumOf([k \in 1..Len(res.blocks) |-> res.blocks[k].w],
                                      Len(res.blocks))
              /\ call.dim = 1 =>
                    res.height = SumOf([k \in 1..Len(res.blocks) |-> res.blocks[k].h],
                                       Len(res.blocks))

\* A call on two buffers with an unsupported selector, stopped by the
\* assertion
C13_Witness ==
    /\ VisDone
    /\ call.dim \notin {1, 2}
    /\ Len(call.visdict) = 2
    /\ res.ret = "raise"
    /\ res.error = "AssertionError"

----------------------------------------------------------------------------
(* Properties of the flags of decode and decode_coarse *)

\* The coarse composite of the last call can be computed: decode multiplies
\* the three colour channels by the validity buffer of hr_images, which
\* needs three channels there, while decode_coarse keeps one channel of it
CompositeComputable ==
    \/ ~res.args.rendering
    \/ ~assets.use_tex
    \/ res.op = "decode_coarse"
    \/ res.input.hr.chan = 3

\* C14: in decode the return_vis stage reads uv_texture_gt, uv_face_eye_mask,
\* uv_detail_normals and opdict['displacement_map'], which only the rendering
\* stage assigns; so decode(rendering=False, return_vis=True) never returns:
\* it fails at the first renderer call on the unbound uv_texture_gt, and no
\* other flag combination fails there; decode(return_vis=False) returns the
\* opdict alone; decode(rendering=True, return_vis=True) returns the pair
\* (opdict, visdict), and enters the dense stage; decode_coarse with
\* return_vis=False returns no value.  A call that fails for another reason
\* fails in a composite or in the dense projection, which a single sample
\* with a three-channel hr_images never does.
C14_FlagOrdering ==
    Called =>
        LET a == res.args
        IN  /\ \A i \in 1..Len(DecodeVisReads) :
                  DecodeVisReads[i] \in Bound(TRUE) \ Bound(FALSE)
            /\ {"uv_texture_gt", "uv_face_eye_mask", "uv_detail_normals",
                 "opdict['displacement_map']"}
                  \subseteq {DecodeVisReads[i] : i \in 1..Len(DecodeVisReads)}
            /\ (CoarseReached <=> a.rendering)
            /\ (DenseEntered => (res.op = "decode" /\ a.rendering /\ a.return_vis))
            /\ (res.raised_at = "render" <=> (a.return_vis /\ ~a.rendering))
            /\ (a.return_vis /\ ~a.rendering) =>
                  /\ res.ret = "raise"
                  /\ res.unbound = "uv_texture_gt"
                  /\ res.opdict = <<>>
            /\ (res.op = "decode" /\ ~a.return_vis) =>
                  /\ res.ret \in {"opdict", "raise"}
                  /\ res.ret = "raise" => res.raised_at = "coarse composite"
                  /\ CompositeComputable =>
                        /\ res.ret = "opdict"
                        /\ "verts" \in DOMAIN res.opdict
                        /\ "grid" \notin DOMAIN res.opdict
                        /\ ("uv_texture_gt" \in DOMAIN res.opdict <=> a.rendering)
            /\ (res.op = "decode" /\ a.return_vis /\ a.rendering) =>
                  /\ res.ret \in {"pair", "raise"}
                  /\ res.ret = "raise" =>
                        res.raised_at \in {"coarse composite", "dense projection",
                                           "dense composite"}
                  /\ CompositeComputable => DenseEntered
                  /\ (CompositeComputable /\ res.input.batch = 1) =>
                        /\ res.ret = "pair"
                        /\ {"grid", "rendered_images", "uv_texture_gt",
                             "displacement_map"} \subseteq DOMAIN res.opdict
            /\ (res.op = "decode_coarse" /\ ~a.return_vis) =>
                  /\ res.ret = "none"
                  /\ res.opdict = <<>>
            /\ (res.op = "decode_coarse" /\ a.return_vis /\ a.rendering) =>
                  res.ret = "pair"

\* decode(rendering=False, return_vis=True) on a single sample with a
\* three-channel hr_images, stopped at the renderer call
C14_Witness ==
    /\ Called
    /\ res.op = "decode"
    /\ ~res.args.rendering /\ res.args.return_vis
    /\ res.input.batch = 1 /\ res.input.hr.chan = 3
    /\ res.ret = "raise"
    /\ res.raised_at = "render"
    /\ "verts" \notin DOMAIN res.opdict

====
